---- MODULE Spec2Model ----
(***************************************************************************)
(* Custom Motel Radio backend (backend/app.py): the identifier extractor,   *)
(* the narration composer and the request handlers that relay to the        *)
(* metadata provider (Spotify) and the speech provider (ElevenLabs).        *)
(*                                                                          *)
(* Strings are sequences of one-character strings; "TAB", "LF" and "CR"     *)
(* stand for the tab, line-feed and carriage-return characters.  Mood       *)
(* scores are held in hundredths (0.65 is 65).  The phrase "tinte piu       *)
(* scure" and the year placeholder "-" are written without the accent and   *)
(* the dash of the source.                                                  *)
(***************************************************************************)
EXTENDS Integers, Sequences, FiniteSets, TLC

VARIABLES env, handler, pc, req, track_id, meta, text, log, replies, resp

vars == <<env, handler, pc, req, track_id, meta, text, log, replies, resp>>

(***************************************************************************)
(* Bounds of the model                                                      *)
(***************************************************************************)
\* tokens are generated with every length from 0 to TokLen + MaxOver
MaxOver == 1
\* a reference carries up to MaxPad whitespace characters on each side
MaxPad == 1

(***************************************************************************)
(* Characters and strings                                                   *)
(***************************************************************************)
LowerSeq == <<"a", "b", "c", "d", "e", "f", "g", "h", "i", "j", "k", "l", "m", "n", "o", "p", "q", "r", "s", "t", "u", "v", "w", "x", "y", "z">>
UpperSeq == <<"A", "B", "C", "D", "E", "F", "G", "H", "I", "J", "K", "L", "M", "N", "O", "P", "Q", "R", "S", "T", "U", "V", "W", "X", "Y", "Z">>
DigitSeq == <<"0", "1", "2", "3", "4", "5", "6", "7", "8", "9">>

Range(s) == {s[i] : i \in DOMAIN s}

Lower == Range(LowerSeq)
Upper == Range(UpperSeq)
Digit == Range(DigitSeq)

\* the character class [A-Za-z0-9] of both regular expressions
Alnum == Lower \cup Upper \cup Digit

\* what str.strip() removes
Whitespace == {" ", "TAB", "LF", "CR"}

\* urllib.parse._UNSAFE_URL_BYTES_TO_REMOVE
UnsafeUrlChars == {"TAB", "LF", "CR"}

\* urllib.parse.scheme_chars
SchemeChars == Alnum \cup {"+", "-", "."}

\* str.lower() on one character
ToLower(c) ==
    IF c \in Upper
    THEN LowerSeq[CHOOSE i \in DOMAIN UpperSeq : UpperSeq[i] = c]
    ELSE c

LowerStr(s) == [i \in DOMAIN s |-> ToLower(s[i])]

\* s[from .. ] (1-based, empty when from is past the end)
Tail_(s, from) == SubSeq(s, from, Len(s))

\* str.find over a set of characters: the first index >= from, 0 for none
FindFrom(s, cs, from) ==
    LET hits == {i \in from..Len(s) : s[i] \in cs}
    IN  IF hits = {} THEN 0 ELSE CHOOSE i \in hits : \A j \in hits : i <= j

\* str.rfind of one character: the last index, 0 for none
RFind(s, c) ==
    LET hits == {i \in DOMAIN s : s[i] = c}
    IN  IF hits = {} THEN 0 ELSE CHOOSE i \in hits : \A j \in hits : i >= j

\* the "in" operator on strings: sub occurs in s
Contains(s, sub) ==
    \E i \in 1..(Len(s) - Len(sub) + 1) : SubSeq(s, i, i + Len(sub) - 1) = sub

\* str.strip()
Strip(s) ==
    LET keep == {i \in DOMAIN s : s[i] \notin Whitespace}
    IN  IF keep = {} THEN <<>>
        ELSE SubSeq(s, CHOOSE i \in keep : \A j \in keep : i <= j,
                       CHOOSE i \in keep : \A j \in keep : i >= j)

\* str.lstrip(_WHATWG_C0_CONTROL_OR_SPACE) of urlsplit
LStrip(s) ==
    LET keep == {i \in DOMAIN s : s[i] \notin Whitespace}
    IN  IF keep = {} THEN <<>>
        ELSE Tail_(s, CHOOSE i \in keep : \A j \in keep : i <= j)

\* str.split(sep) keeping the empty pieces
RECURSIVE Split(_, _)
Split(s, sep) ==
    LET i == FindFrom(s, {sep}, 1)
    IN  IF i = 0 THEN <<s>>
        ELSE <<SubSeq(s, 1, i - 1)>> \o Split(Tail_(s, i + 1), sep)

RECURSIVE Rep(_, _)
Rep(c, n) == IF n = 0 THEN <<>> ELSE <<c>> \o Rep(c, n - 1)

(***************************************************************************)
(* urllib.parse.urlparse, as extract_track_id uses it                       *)
(***************************************************************************)
\* urllib.parse.uses_params
UsesParams ==
    { <<>>, <<"f", "t", "p">>, <<"h", "d", "l">>, <<"h", "t", "t", "p">>,
      <<"h", "t", "t", "p", "s">>, <<"i", "m", "a", "p">>, <<"s", "i", "p">>,
      <<"s", "i", "p", "s">>, <<"m", "m", "s">>, <<"s", "f", "t", "p">>,
      <<"t", "e", "l">>, <<"r", "t", "s", "p">>, <<"r", "t", "s", "p", "u">>,
      <<"s", "h", "t", "t", "p">>,
      <<"p", "r", "o", "s", "p", "e", "r", "o">> }

\* the scheme split of urlsplit: <<scheme, rest>>
SplitScheme(url) ==
    LET i == FindFrom(url, {":"}, 1)
    IN  IF /\ i > 1
           /\ url[1] \in Lower \cup Upper
           /\ \A k \in 1..(i - 1) : url[k] \in SchemeChars
        THEN <<LowerStr(SubSeq(url, 1, i - 1)), Tail_(url, i + 1)>>
        ELSE <<(<<>>), url>>

\* _splitnetloc(url, 2): the netloc runs to the first of "/", "?", "#"
SplitNetloc(url) ==
    IF Len(url) >= 2 /\ url[1] = "/" /\ url[2] = "/"
    THEN LET d == FindFrom(url, {"/", "?", "#"}, 3)
             e == IF d = 0 THEN Len(url) + 1 ELSE d
         IN  <<SubSeq(url, 3, e - 1), Tail_(url, e)>>
    ELSE <<(<<>>), url>>

\* urlsplit raises ValueError("Invalid IPv6 URL") on an unbalanced bracket
InvalidNetloc(netloc) ==
    \/ "[" \in Range(netloc) /\ "]" \notin Range(netloc)
    \/ "]" \in Range(netloc) /\ "[" \notin Range(netloc)

\* cut at the first occurrence of c: the part before it
Before(s, c) ==
    LET i == FindFrom(s, {c}, 1) IN IF i = 0 THEN s ELSE SubSeq(s, 1, i - 1)

\* _splitparams: the path without the ";params" of its last segment
SplitParams(scheme, path) ==
    IF scheme \in UsesParams /\ ";" \in Range(path)
    THEN LET sl == RFind(path, "/")
             i  == FindFrom(path, {";"}, IF sl = 0 THEN 1 ELSE sl)
         IN  IF i = 0 THEN path ELSE SubSeq(path, 1, i - 1)
    ELSE path

\* urlparse(track_url): the fields extract_track_id reads, or the error
urlparse(track_url) ==
    LET url  == SelectSeq(LStrip(track_url), LAMBDA c : c \notin UnsafeUrlChars)
        ss   == SplitScheme(url)
        sn   == SplitNetloc(ss[2])
        path == Before(Before(sn[2], "#"), "?")
    IN  [ error  |-> InvalidNetloc(sn[1]),
          scheme |-> ss[1],
          netloc |-> sn[1],
          path   |-> SplitParams(ss[1], path) ]

(***************************************************************************)
(* extract_track_id                                                         *)
(***************************************************************************)
\* length of a track identifier: the {22} of both regular expressions
TokLen == 22

UriPrefix == <<"s", "p", "o", "t", "i", "f", "y", ":", "t", "r", "a", "c", "k", ":">>
Host == <<"o", "p", "e", "n", ".", "s", "p", "o", "t", "i", "f", "y", ".", "c", "o", "m">>
TrackSeg == <<"t", "r", "a", "c", "k">>

\* the slip of re.match for re.fullmatch: only the first 22 characters are tested
Mut_PrefixMatchId(candidate) ==
    Len(candidate) >= TokLen /\ \A i \in 1..TokLen : candidate[i] \in Alnum

\* re.fullmatch(r"[A-Za-z0-9]{22}", candidate)
FullMatchId(candidate) ==
    Len(candidate) = TokLen /\ \A i \in DOMAIN candidate : candidate[i] \in Alnum

\* re.match(r"^spotify:track:([A-Za-z0-9]{22})$", s) on a stripped string
UriMatch(s) ==
    /\ Len(s) = Len(UriPrefix) + TokLen
    /\ SubSeq(s, 1, Len(UriPrefix)) = UriPrefix
    /\ FullMatchId(Tail_(s, Len(UriPrefix) + 1))

\* [p for p in u.path.split("/") if p]
PathParts(path) == SelectSeq(Split(path, "/"), LAMBDA p : p # <<>>)

\* The URL case: the host test and the last two path segments
ExtractFromUrl(s) ==
    LET u == urlparse(s)
    IN  IF u.error THEN <<>>
        ELSE IF ~Contains(u.netloc, Host) THEN <<>>
        ELSE LET parts == PathParts(u.path)
                 n == Len(parts)
             IN  IF n >= 2 /\ parts[n - 1] = TrackSeg
                 THEN IF FullMatchId(parts[n]) THEN parts[n] ELSE <<>>
                 ELSE <<>>

\* the slip of a missing track_url.strip()
Mut_NoStrip(track_url) ==
    IF track_url = <<>> THEN <<>>
    ELSE IF UriMatch(track_url) THEN Tail_(track_url, Len(UriPrefix) + 1)
         ELSE ExtractFromUrl(track_url)

extract_track_id(track_url) ==
    IF track_url = <<>> THEN <<>>
    ELSE LET s == Strip(track_url)
         IN  IF UriMatch(s) THEN Tail_(s, Len(UriPrefix) + 1)
             ELSE ExtractFromUrl(s)

(***************************************************************************)
(* Track references the extractor is run on: pre \o lead \o tok \o tail \o  *)
(* post.  Each lead records what it is: its kind ("uri", "url" and "intl"   *)
(* are the three documented forms), whether it is a URL, and the host and   *)
(* netloc written in it.                                                    *)
(***************************************************************************)
EvilHost == <<"e", "v", "i", "l", ".", "i", "o">>
EvilSubHost == Host \o <<".">> \o EvilHost
UpperHost == <<"O", "P", "E", "N", ".", "s", "p", "o", "t", "i", "f", "y", ".", "c", "o", "m">>
Https == <<"h", "t", "t", "p", "s", ":", "/", "/">>
TrackPath == <<"/">> \o TrackSeg \o <<"/">>
IntlPath == <<"/", "i", "n", "t", "l", "-", "i", "t">> \o TrackPath
AlbumPath == <<"/", "a", "l", "b", "u", "m", "/">>
NotAUrl == <<"n", "o", "t", "-", "a", "-", "u", "r", "l">>

Lead(chars, kind, isurl, host, netloc) ==
    [chars |-> chars, kind |-> kind, isurl |-> isurl, host |-> host, netloc |-> netloc]

Leads ==
    { Lead(UriPrefix, "uri", FALSE, <<>>, <<>>),
      Lead(Https \o Host \o TrackPath, "url", TRUE, Host, Host),
      Lead(Https \o Host \o IntlPath, "intl", TRUE, Host, Host),
      Lead(<<"H", "T", "T", "P", "S", ":", "/", "/">> \o Host \o TrackPath, "url", TRUE, Host, Host),
      Lead(<<"/", "/">> \o Host \o TrackPath, "other", TRUE, Host, Host),
      Lead(Https \o <<"u", "@">> \o Host \o <<":", "8", "0">> \o TrackPath, "other", TRUE, Host,
           <<"u", "@">> \o Host \o <<":", "8", "0">>),
      Lead(Https \o EvilSubHost \o TrackPath, "url", TRUE, EvilSubHost, EvilSubHost),
      Lead(Https \o EvilHost \o TrackPath, "url", TRUE, EvilHost, EvilHost),
      Lead(Https \o UpperHost \o TrackPath, "url", TRUE, UpperHost, UpperHost),
      Lead(Https \o EvilHost \o <<"/">> \o Host \o TrackPath, "other", TRUE, EvilHost, EvilHost),
      Lead(Https \o EvilHost \o <<"?">> \o Host \o TrackPath, "other", TRUE, EvilHost, EvilHost),
      Lead(Https \o <<"[">> \o Host \o TrackPath, "other", TRUE, <<"[">> \o Host, <<"[">> \o Host),
      Lead(Https \o Host \o AlbumPath, "other", TRUE, Host, Host),
      Lead(Host \o TrackPath, "other", FALSE, <<>>, <<>>),
      Lead(NotAUrl, "other", FALSE, <<>>, <<>>),
      Lead(<<>>, "other", FALSE, <<>>, <<>>) }

\* the example token of the documentation
ExampleToken == <<"4", "c", "O", "d", "K", "2", "w", "G", "L", "E", "T", "K", "B", "W", "3", "P", "v", "g", "P", "W", "q", "T">>

\* characters put at the first and at the last place of a token
LeadingOddChars == {"z", "7", "_", "TAB"}
TrailingOddChars == {"z", "7", "_", ";"}

\* with the odd character: the lengths within MaxOver of TokLen
NearLens == (TokLen - 1 - MaxOver)..(TokLen - 1 + MaxOver)

Tokens ==
    {ExampleToken}
    \cup {Rep("A", n) : n \in 0..(TokLen + MaxOver)}
    \cup {<<c>> \o Rep("A", n) : c \in LeadingOddChars, n \in NearLens}
    \cup {Rep("A", n) \o <<c>> : c \in TrailingOddChars, n \in NearLens}

QueryTail == <<"?", "s", "i", "=", "a">>
FragmentTail == <<"#", "x">>
QueryFragmentTail == <<"?", "a", "=", "/", "b", "#", "c">>

\* the tails that are a query string, a fragment or nothing
PlainTails == {<<>>, QueryTail, FragmentTail, QueryFragmentTail}

Tails == PlainTails \cup {<<"/">>, <<";", "p">>}

References ==
    { [ pre  |-> Rep(" ", a), lead |-> l, tok |-> t, tail |-> x, post |-> b,
        track_url |-> Rep(" ", a) \o l.chars \o t \o x \o b ] :
      a \in 0..MaxPad,
      l \in Leads,
      t \in Tokens,
      x \in Tails,
      b \in {Rep(" ", k) : k \in 0..MaxPad} \cup {<<"LF">>} }

(***************************************************************************)
(* build_intro_text.  A text is the sequence of its pieces; the mood is the *)
(* selected phrases joined by ", ".                                         *)
(***************************************************************************)
\* the thresholds 0.65 and 0.35, in hundredths
HighThreshold == 65
LowThreshold == 35

\* the slip of strict comparisons: the thresholds themselves select nothing
Mut_StrictMoodBits(m) ==
    (IF m.energy > HighThreshold THEN <<"energia alta">>
     ELSE IF m.energy < LowThreshold THEN <<"atmosfere soffuse">>
     ELSE <<>>)
    \o
    (IF m.valence > HighThreshold THEN <<"vibe luminosa">>
     ELSE IF m.valence < LowThreshold THEN <<"tinte piu scure">>
     ELSE <<>>)
    \o
    (IF m.danceability > HighThreshold THEN <<"groove che chiama movimento">>
     ELSE <<>>)

\* mood_bits after the three threshold tests
MoodBits(m) ==
    (IF m.energy >= HighThreshold THEN <<"energia alta">>
     ELSE IF m.energy <= LowThreshold THEN <<"atmosfere soffuse">>
     ELSE <<>>)
    \o
    (IF m.valence >= HighThreshold THEN <<"vibe luminosa">>
     ELSE IF m.valence <= LowThreshold THEN <<"tinte piu scure">>
     ELSE <<>>)
    \o
    (IF m.danceability >= HighThreshold THEN <<"groove che chiama movimento">>
     ELSE <<>>)

\* ", ".join(bits)
RECURSIVE Join(_)
Join(bits) ==
    IF bits = <<>> THEN <<>>
    ELSE IF Len(bits) = 1 THEN bits
    ELSE <<bits[1], ", ">> \o Join(Tail(bits))

\* mood = ", ".join(mood_bits) if mood_bits else "equilibrio perfetto"
Mood(m) ==
    LET mood_bits == MoodBits(m)
    IN  IF mood_bits # <<>> THEN Join(mood_bits) ELSE <<"equilibrio perfetto">>

build_intro_text(m) ==
    <<m.year, ", ", m.artist, " dal disco ", m.album, ": ", m.title, ". ">>
    \o Mood(m) \o <<". Buon ascolto.">>

\* mood scores the composer is run on, in hundredths of [0, 1]
MoodValues == {0, 20, 34, 35, 36, 50, 64, 65, 66, 80, 100}

Metas ==
    { [ title |-> "Z", artist |-> "X", album |-> "Y", year |-> y,
        energy |-> e, valence |-> v, danceability |-> d, tempo |-> 120 ] :
      y \in {"1997", "-"}, e \in MoodValues, v \in MoodValues, d \in MoodValues }

(***************************************************************************)
(* The extractor on its own: one call of extract_track_id per reference     *)
(***************************************************************************)
\* Python's None, where a record or nothing is held
None == [none |-> TRUE]

\* Python's None, where a string or nothing is held
NoText == "<None>"

\* the remote endpoints: token, track and audio-features of the metadata provider,
\* synthesis and voice listing of the speech provider
Endpoints == {"token", "track", "features", "speech", "voices"}

\* no endpoint has answered yet
NoReplies == [ep \in Endpoints |-> None]

EnvAllSet == [spotify |-> "set", eleven |-> "set", voice |-> "set"]

InitExtract ==
    /\ env = EnvAllSet
    /\ handler = "extract_track_id"
    /\ pc = "call"
    /\ req \in References
    /\ track_id = <<>>
    /\ meta = None
    /\ text = <<>>
    /\ log = <<>>
    /\ replies = NoReplies
    /\ resp = <<>>

ExtractCall ==
    /\ handler = "extract_track_id"
    /\ pc = "call"
    /\ track_id' = extract_track_id(req.track_url)
    /\ pc' = "returned"
    /\ UNCHANGED <<env, handler, req, meta, text, log, replies, resp>>

NextExtract == ExtractCall

SpecExtract == InitExtract /\ [][NextExtract]_vars

(***************************************************************************)
(* Properties of the extractor                                              *)
(***************************************************************************)
\* a track identifier: exactly 22 characters of [A-Za-z0-9]
IsTrackIdentifier(x) == Len(x) = 22 /\ \A i \in DOMAIN x : x[i] \in Alnum

Returned == handler = "extract_track_id" /\ pc = "returned"

\* the three documented surface forms
DocumentedLeads == {UriPrefix, Https \o Host \o TrackPath, Https \o Host \o IntlPath}

\* C6: for every valid token T, extract_track_id returns T for "spotify:track:T",
\* "https://open.spotify.com/track/T" and "https://open.spotify.com/intl-xx/track/T",
\* also with surrounding whitespace, and with a query string or a fragment on the
\* two URL forms.
C6_ValidTokenExtracted ==
    ( /\ Returned
      /\ req.lead.chars \in DocumentedLeads
      /\ IsTrackIdentifier(req.tok)
      /\ \/ req.tail = <<>>
         \/ req.lead.chars # UriPrefix /\ req.tail \in PlainTails )
    => track_id = req.tok

\* C6 happens: the locale form with padding on both sides, a query and a fragment
C6_Witness ==
    /\ Returned
    /\ req.lead.chars = Https \o Host \o IntlPath
    /\ req.tok = ExampleToken
    /\ req.tail = QueryFragmentTail
    /\ req.pre # <<>> /\ req.post # <<>>
    /\ track_id = ExampleToken

\* the last non-empty path segment of the reference as urlparse yields it
ParsedToken(ref) ==
    LET parts == PathParts(urlparse(Strip(ref)).path)
    IN  IF parts = <<>> THEN <<>> ELSE parts[Len(parts)]

\* C7 as stated: empty for every URL-form reference whose token is not exactly 22
\* characters of [A-Za-z0-9], empty for every URL whose host is not
\* open.spotify.com, and every result is empty or a track identifier.
C7_Original ==
    Returned =>
        /\ (req.lead.kind \in {"url", "intl"} /\ ~IsTrackIdentifier(req.tok))
              => track_id = <<>>
        /\ (req.lead.isurl /\ req.lead.host # Host) => track_id = <<>>
        /\ track_id = <<>> \/ IsTrackIdentifier(track_id)

\* C7 amended: empty for every URL-form reference whose token, taken as the last
\* path segment urlparse yields (tab, CR and LF removed, ";params", "?query" and
\* "#fragment" cut off), is not exactly 22 characters of [A-Za-z0-9]; empty for
\* every URL whose netloc does not contain the substring "open.spotify.com"; every
\* result is empty or a track identifier.
C7_EmptyOrIdentifier ==
    Returned =>
        /\ (req.lead.kind \in {"url", "intl"} /\ ~IsTrackIdentifier(ParsedToken(req.track_url)))
              => track_id = <<>>
        /\ (req.lead.isurl /\ ~Contains(req.lead.netloc, Host)) => track_id = <<>>
        /\ track_id = <<>> \/ IsTrackIdentifier(track_id)

\* C7 happens: a URL-form reference whose token is one character too long
C7_Witness ==
    /\ Returned
    /\ req.lead.chars = Https \o Host \o TrackPath
    /\ req.tok = Rep("A", 23)
    /\ req.tail = <<>>
    /\ track_id = <<>>

(***************************************************************************)
(* The composer on its own: one call of build_intro_text per metadata       *)
(***************************************************************************)
InitIntro ==
    /\ env = EnvAllSet
    /\ handler = "build_intro_text"
    /\ pc = "call"
    /\ req = [handler |-> "build_intro_text"]
    /\ track_id = <<>>
    /\ meta \in Metas
    /\ text = <<>>
    /\ log = <<>>
    /\ replies = NoReplies
    /\ resp = <<>>

ComposeCall ==
    /\ handler = "build_intro_text"
    /\ pc = "call"
    /\ text' = build_intro_text(meta)
    /\ pc' = "returned"
    /\ UNCHANGED <<env, handler, req, track_id, meta, log, replies, resp>>

NextIntro == ComposeCall

SpecIntro == InitIntro /\ [][NextIntro]_vars

(***************************************************************************)
(* Properties of the composer                                               *)
(***************************************************************************)
MoodPhrases ==
    {"energia alta", "atmosfere soffuse", "vibe luminosa", "tinte piu scure",
     "groove che chiama movimento", "equilibrio perfetto"}

\* the mood phrases of a narration, in the order they appear
PhrasesOf(t) == SelectSeq(t, LAMBDA x : x \in MoodPhrases)

\* the dimension a phrase speaks of: 1 energy, 2 valence, 3 danceability
DimensionOf(ph) ==
    CASE ph \in {"energia alta", "atmosfere soffuse"} -> 1
      [] ph \in {"vibe luminosa", "tinte piu scure"} -> 2
      [] ph = "groove che chiama movimento" -> 3
      [] OTHER -> 0

Composed == handler = "build_intro_text" /\ pc = "returned"

\* C8: build_intro_text selects the phrases of the threshold table, both bounds
\* inclusive: high energy iff energy >= 0.65, subdued iff energy <= 0.35, bright iff
\* valence >= 0.65, darker iff valence <= 0.35, groove iff danceability >= 0.65; in
\* the order energy, valence, danceability, at most one per dimension; the fallback
\* phrase iff no phrase was selected.
C8_MoodPhrasesByThreshold ==
    Composed =>
        LET ph == PhrasesOf(text)
            has(x) == \E i \in DOMAIN ph : ph[i] = x
        IN  /\ has("energia alta") <=> meta.energy >= 65
            /\ has("atmosfere soffuse") <=> meta.energy <= 35
            /\ has("vibe luminosa") <=> meta.valence >= 65
            /\ has("tinte piu scure") <=> meta.valence <= 35
            /\ has("groove che chiama movimento") <=> meta.danceability >= 65
            /\ \A i, j \in DOMAIN ph : i < j => DimensionOf(ph[i]) < DimensionOf(ph[j])
            /\ has("equilibrio perfetto") <=>
                  /\ meta.energy > 35 /\ meta.energy < 65
                  /\ meta.valence > 35 /\ meta.valence < 65
                  /\ meta.danceability < 65
            /\ has("equilibrio perfetto") => ph = <<"equilibrio perfetto">>

\* C8 happens: both boundary values select, 0.5 does not
C8_Witness ==
    /\ Composed
    /\ meta.energy = 65 /\ meta.valence = 35 /\ meta.danceability = 50
    /\ PhrasesOf(text) = <<"energia alta", "tinte piu scure">>

(***************************************************************************)
(* The request handlers.  One request per behaviour: requests share no      *)
(* state.  env is the configuration read at import; a credential is         *)
(* "unset" (None), "empty" (the empty string) or "set".  log holds the      *)
(* steps taken, the outbound calls among them by their endpoint; replies    *)
(* holds what each endpoint answered; resp holds the responses sent.        *)
(***************************************************************************)
Envs ==
    [spotify : {"unset", "set"}, eleven : {"unset", "empty", "set"}, voice : {"unset", "set"}]

\* "not X" on a configuration value: None and "" are both missing
Missing(c) == c # "set"

TrackHandlers == {"intro_from_track_text", "intro_from_track"}

\* track references sent to the track handlers
HandlerReferences ==
    { <<>>,
      <<" ">>,
      NotAUrl,
      UriPrefix \o ExampleToken,
      <<" ">> \o Https \o Host \o IntlPath \o ExampleToken \o QueryTail,
      Https \o Host \o TrackPath \o Rep("A", TokLen - 1),
      Https \o EvilHost \o TrackPath \o ExampleToken }

\* the text of a /api/tts request: the query parameter and the JSON body
TtsTexts == {NoText, "", "  ", "ciao"}

Requests ==
    {[handler |-> h, track_url |-> u] : h \in TrackHandlers, u \in HandlerReferences}
    \cup {[handler |-> "tts", text |-> q, payload |-> b] : q \in TtsTexts, b \in TtsTexts}
    \cup {[handler |-> h] : h \in {"voices", "health", "debug_eleven_auth"}}

\* status codes an upstream answers with (redirects are not followed: a 302 comes
\* back as it is)
Statuses == {200, 302, 400, 401, 404, 429, 500, 503}

\* a track object: complete, or with the keys the parsing does not take for
\* granted missing (held as the empty values that "or" treats alike)
FullTrack ==
    [ name |-> "Z", artists |-> <<[name |-> "X"]>>,
      album |-> [name |-> "Y", release_date |-> <<"1", "9", "9", "7", "-", "0", "5", "-", "2", "1">>] ]
BareTrack == [name |-> "", artists |-> <<>>, album |-> [name |-> "", release_date |-> <<>>]]

\* audio-features objects; the last one lacks the mood keys
FeatureObjects ==
    { [energy |-> 80, valence |-> 20, danceability |-> 10, tempo |-> 120],
      [energy |-> 65, valence |-> 35, danceability |-> 65, tempo |-> 90],
      [energy |-> 50, valence |-> 64, danceability |-> 36, tempo |-> 100],
      [tempo |-> 100] }

\* what an outbound call can come back with: a response, whose body is JSON
\* or not, or an exception of the client (a timeout, a transport error)
Response(s, b, j) == [kind |-> "response", status |-> s, body |-> b, json |-> j]
Exception == [kind |-> "exception"]

JsonOf(ep) ==
    CASE ep = "track" -> {FullTrack, BareTrack}
      [] ep = "features" -> FeatureObjects
      [] OTHER -> {None}

UpstreamReplies(ep) ==
    {Response(s, "json", j) : s \in {200}, j \in JsonOf(ep)}
    \cup {Response(s, "json", None) : s \in Statuses \ {200}}
    \cup {Response(s, "text", None) : s \in Statuses}
    \cup {Exception}

Init ==
    /\ env \in Envs
    /\ \E r \in Requests : handler = r.handler /\ req = r
    /\ pc = "start"
    /\ track_id = <<>>
    /\ meta = None
    /\ text = <<>>
    /\ log = <<>>
    /\ replies = NoReplies
    /\ resp = <<>>

\* the response is sent and the request is over
Respond(status, kind, body) ==
    /\ resp' = Append(resp, [status |-> status, kind |-> kind, body |-> body])
    /\ pc' = "done"

\* raise HTTPException(status, detail): FastAPI answers with that status
RaiseHTTP(status, detail) == Respond(status, "error", detail)

\* any other exception: intro_from_track_text turns it into a 502 around its two
\* metadata calls, everywhere else it leaves the handler and the server answers 500
OtherExceptionStatus(h, at) ==
    IF h = "intro_from_track_text" /\ at \in {"token", "track", "features"} THEN 502 ELSE 500

RaiseOther(at) == Respond(OtherExceptionStatus(handler, at), "error", "exception")

\* the outbound call to ep is issued and awaited
Call(ep) ==
    /\ log' = Append(log, ep)
    /\ pc' = "await_" \o ep

Received(ep, r) == replies' = [replies EXCEPT ![ep] = r]

(***************************************************************************)
(* POST /api/intro-from-track-text and POST /api/intro-from-track           *)
(***************************************************************************)
\* the slip of a missing "if not track_id" test
Mut_TrackInputError(h, track_url, e) ==
    IF Strip(track_url) = <<>> THEN 400
    ELSE IF h = "intro_from_track" /\ (Missing(e.eleven) \/ Missing(e.voice)) THEN 500
    ELSE 0

\* The tests before the first outbound call: the status of the error raised, 0 for none
TrackInputError(h, track_url, e) ==
    IF Strip(track_url) = <<>> THEN 400
    ELSE IF extract_track_id(Strip(track_url)) = <<>> THEN 400
    ELSE IF h = "intro_from_track" /\ (Missing(e.eleven) \/ Missing(e.voice)) THEN 500
    ELSE 0

TrackValidate ==
    /\ handler \in TrackHandlers
    /\ pc = "start"
    /\ LET stripped == Strip(req.track_url)
           err == TrackInputError(handler, req.track_url, env)
       IN  /\ track_id' = IF stripped = <<>> THEN <<>> ELSE extract_track_id(stripped)
           /\ log' = IF stripped = <<>> THEN log ELSE Append(log, "extract")
           /\ IF err # 0
              THEN RaiseHTTP(err, "input or configuration")
              ELSE pc' = "token" /\ UNCHANGED resp
    /\ UNCHANGED <<env, handler, req, meta, text, replies>>

\* get_spotify_token up to its request
GetSpotifyToken_Call ==
    /\ handler \in TrackHandlers
    /\ pc = "token"
    /\ IF Missing(env.spotify)
       THEN RaiseHTTP(500, "Spotify client credentials mancanti") /\ UNCHANGED log
       ELSE Call("token") /\ UNCHANGED resp
    /\ UNCHANGED <<env, handler, req, track_id, meta, text, replies>>

\* the slip of reporting every upstream failure as a 502
Mut_UpstreamErrorStatus(r) == 502

\* HTTPException(status_code=r.status_code, ...): the upstream's status is passed on
UpstreamErrorStatus(r) == r.status

\* the slip of a retry: a failed token request is issued once more
Mut_TokenReplyRetry(r) ==
    /\ handler \in TrackHandlers
    /\ pc = "await_token"
    /\ Received("token", r)
    /\ IF r.kind = "exception" THEN RaiseOther("token")
       ELSE IF r.status # 200
            THEN IF Len(SelectSeq(log, LAMBDA x : x = "token")) < 2
                 THEN pc' = "token" /\ UNCHANGED resp
                 ELSE RaiseHTTP(r.status, "Spotify token error")
       ELSE IF r.body # "json" THEN RaiseOther("token")
       ELSE pc' = "track" /\ UNCHANGED resp
    /\ UNCHANGED <<env, handler, req, track_id, meta, text, log>>

\* get_spotify_token from the answer of the token endpoint (a JSON body is taken
\* to carry the access_token)
GetSpotifyToken_Reply(r) ==
    /\ handler \in TrackHandlers
    /\ pc = "await_token"
    /\ Received("token", r)
    /\ IF r.kind = "exception" THEN RaiseOther("token")
       ELSE IF r.status # 200 THEN RaiseHTTP(UpstreamErrorStatus(r), "Spotify token error")
       ELSE IF r.body # "json" THEN RaiseOther("token")
       ELSE pc' = "track" /\ UNCHANGED resp
    /\ UNCHANGED <<env, handler, req, track_id, meta, text, log>>

\* fetch_track_info up to the track request
FetchTrack_Call ==
    /\ handler \in TrackHandlers
    /\ pc = "track"
    /\ Call("track")
    /\ UNCHANGED <<env, handler, req, track_id, meta, text, replies, resp>>

\* fetch_track_info from the answer of the track endpoint to the audio-features request
FetchTrack_Reply(r) ==
    /\ handler \in TrackHandlers
    /\ pc = "await_track"
    /\ Received("track", r)
    /\ IF r.kind = "exception" THEN RaiseOther("track") /\ UNCHANGED log
       ELSE IF r.status # 200
            THEN RaiseHTTP(UpstreamErrorStatus(r), "Spotify tracks error") /\ UNCHANGED log
       ELSE IF r.body # "json" THEN RaiseOther("track") /\ UNCHANGED log
       ELSE Call("features") /\ UNCHANGED resp
    /\ UNCHANGED <<env, handler, req, track_id, meta, text>>

\* the neutral values used when the audio-features endpoint does not answer 200
DefaultFeatures == [energy |-> 50, valence |-> 50, danceability |-> 50, tempo |-> 0]

\* features.get(key, default)
Get(features, key, default) == IF key \in DOMAIN features THEN features[key] ELSE default

\* the string of a sequence of characters
RECURSIVE Concat(_)
Concat(s) == IF s = <<>> THEN "" ELSE s[1] \o Concat(Tail(s))

\* x or y on strings
Or(x, y) == IF x = "" THEN y ELSE x

\* the record fetch_track_info returns
TrackInfo(track, features) ==
    [ title  |-> Or(track.name, "Unknown title"),
      artist |-> IF track.artists # <<>> THEN track.artists[1].name ELSE "Unknown artist",
      album  |-> Or(track.album.name, "Unknown album"),
      year   |-> IF track.album.release_date # <<>>
                 THEN Concat(SubSeq(track.album.release_date, 1, 4))
                 ELSE "-",
      energy |-> Get(features, "energy", 50),
      valence |-> Get(features, "valence", 50),
      danceability |-> Get(features, "danceability", 50),
      tempo  |-> Get(features, "tempo", 0) ]

\* fetch_track_info from the answer of the audio-features endpoint to its return
FetchFeatures_Reply(r) ==
    /\ handler \in TrackHandlers
    /\ pc = "await_features"
    /\ Received("features", r)
    /\ IF r.kind = "exception" THEN RaiseOther("features") /\ UNCHANGED meta
       ELSE IF r.status = 200 /\ r.body # "json" THEN RaiseOther("features") /\ UNCHANGED meta
       ELSE /\ meta' = TrackInfo(replies["track"].json,
                                 IF r.status = 200 THEN r.json ELSE DefaultFeatures)
            /\ pc' = "compose"
            /\ UNCHANGED resp
    /\ UNCHANGED <<env, handler, req, track_id, text, log>>

\* build_intro_text and, in intro_from_track_text, the JSON answer
Compose ==
    /\ handler \in TrackHandlers
    /\ pc = "compose"
    /\ text' = build_intro_text(meta)
    /\ log' = Append(log, "compose")
    /\ IF handler = "intro_from_track_text"
       THEN Respond(200, "json", [ok |-> TRUE, track_id |-> track_id,
                                  text |-> build_intro_text(meta), meta |-> meta])
       ELSE pc' = "speech_call" /\ UNCHANGED resp
    /\ UNCHANGED <<env, handler, req, track_id, meta, replies>>

\* intro_from_track: the request to the speech provider
Speech_Call ==
    /\ handler = "intro_from_track"
    /\ pc = "speech_call"
    /\ Call("speech")
    /\ UNCHANGED <<env, handler, req, track_id, meta, text, replies, resp>>

\* the slip of a missing status test: whatever came back is sent as audio
Mut_Speech_Reply(r) ==
    /\ handler = "intro_from_track"
    /\ pc = "await_speech"
    /\ Received("speech", r)
    /\ IF r.kind = "exception" THEN RaiseOther("speech")
       ELSE Respond(200, "audio", "content")
    /\ UNCHANGED <<env, handler, req, track_id, meta, text, log>>

\* intro_from_track from the answer of the speech provider
Speech_Reply(r) ==
    /\ handler = "intro_from_track"
    /\ pc = "await_speech"
    /\ Received("speech", r)
    /\ IF r.kind = "exception" THEN RaiseOther("speech")
       ELSE IF r.status # 200 THEN RaiseHTTP(UpstreamErrorStatus(r), "ElevenLabs error")
       ELSE Respond(200, "audio", "content")
    /\ UNCHANGED <<env, handler, req, track_id, meta, text, log>>

(***************************************************************************)
(* POST /api/tts                                                            *)
(***************************************************************************)
\* text from the query string, else from the JSON body
TtsText(r) == IF r.text = NoText /\ r.payload # NoText THEN r.payload ELSE r.text

\* not text or not text.strip()
Blank(s) == s \in {NoText, "", "  "}

\* tts up to its request.  The handler tests no configuration: with the key None
\* the client refuses the header value and raises before anything is sent; with
\* the key empty, or the voice missing, the request goes out.
Tts_Start ==
    /\ handler = "tts"
    /\ pc = "start"
    /\ IF Blank(TtsText(req))
       THEN RaiseHTTP(400, "Parametro 'text' mancante") /\ UNCHANGED log
       ELSE IF env.eleven = "unset"
            THEN RaiseOther("speech") /\ UNCHANGED log
            ELSE Call("speech") /\ UNCHANGED resp
    /\ UNCHANGED <<env, handler, req, track_id, meta, text, replies>>

\* tts from the answer of the speech provider
Tts_Reply(r) ==
    /\ handler = "tts"
    /\ pc = "await_speech"
    /\ Received("speech", r)
    /\ IF r.kind = "exception" THEN RaiseOther("speech")
       ELSE IF r.status # 200
            THEN IF r.body = "json"
                 THEN Respond(r.status, "json", "upstream json")
                 ELSE RaiseHTTP(502, "Errore TTS upstream non-JSON.")
       ELSE Respond(200, "audio", "content")
    /\ UNCHANGED <<env, handler, req, track_id, meta, text, log>>

(***************************************************************************)
(* GET /api/voices, GET /health, GET /debug/eleven-auth                     *)
(***************************************************************************)
Voices_Start ==
    /\ handler = "voices"
    /\ pc = "start"
    /\ IF Missing(env.eleven)
       THEN RaiseHTTP(500, "Missing ELEVENLABS_API_KEY") /\ UNCHANGED log
       ELSE Call("voices") /\ UNCHANGED resp
    /\ UNCHANGED <<env, handler, req, track_id, meta, text, replies>>

Voices_Reply(r) ==
    /\ handler = "voices"
    /\ pc = "await_voices"
    /\ Received("voices", r)
    /\ IF r.kind = "exception" THEN RaiseOther("voices")
       ELSE IF r.status # 200 THEN RaiseHTTP(UpstreamErrorStatus(r), "upstream text")
       ELSE IF r.body # "json" THEN RaiseOther("voices")
       ELSE Respond(200, "json", "voices")
    /\ UNCHANGED <<env, handler, req, track_id, meta, text, log>>

Health ==
    /\ handler = "health"
    /\ pc = "start"
    /\ Respond(200, "json", [env_loaded |-> ~Missing(env.eleven),
                             has_default_voice |-> ~Missing(env.voice),
                             spotify_client_set |-> ~Missing(env.spotify)])
    /\ UNCHANGED <<env, handler, req, track_id, meta, text, log, replies>>

\* debug_eleven_auth up to its request: the key is read again and not tested
Debug_Start ==
    /\ handler = "debug_eleven_auth"
    /\ pc = "start"
    /\ IF env.eleven = "unset"
       THEN RaiseOther("voices") /\ UNCHANGED log
       ELSE Call("voices") /\ UNCHANGED resp
    /\ UNCHANGED <<env, handler, req, track_id, meta, text, replies>>

\* debug_eleven_auth: the upstream's status with its JSON, or with its text
Debug_Reply(r) ==
    /\ handler = "debug_eleven_auth"
    /\ pc = "await_voices"
    /\ Received("voices", r)
    /\ IF r.kind = "exception" THEN RaiseOther("voices")
       ELSE IF r.body = "json" THEN Respond(r.status, "json", "upstream json")
       ELSE Respond(r.status, "json", "upstream text")
    /\ UNCHANGED <<env, handler, req, track_id, meta, text, log>>

Next ==
    \/ TrackValidate
    \/ GetSpotifyToken_Call
    \/ \E r \in UpstreamReplies("token") : GetSpotifyToken_Reply(r)
    \/ FetchTrack_Call
    \/ \E r \in UpstreamReplies("track") : FetchTrack_Reply(r)
    \/ \E r \in UpstreamReplies("features") : FetchFeatures_Reply(r)
    \/ Compose
    \/ Speech_Call
    \/ \E r \in UpstreamReplies("speech") : Speech_Reply(r)
    \/ Tts_Start
    \/ \E r \in UpstreamReplies("speech") : Tts_Reply(r)
    \/ Voices_Start
    \/ \E r \in UpstreamReplies("voices") : Voices_Reply(r)
    \/ Health
    \/ Debug_Start
    \/ \E r \in UpstreamReplies("voices") : Debug_Reply(r)

Spec == Init /\ [][Next]_vars

(***************************************************************************)
(* Properties of the handlers                                               *)
(***************************************************************************)
\* the outbound calls issued so far, in order
Calls == SelectSeq(log, LAMBDA x : x \in Endpoints)

Done == pc = "done"

Answered(ep) == replies[ep] # None

\* the endpoint answered with a status other than 200
AnsweredFailure(ep) ==
    Answered(ep) /\ replies[ep].kind = "response" /\ replies[ep].status # 200

\* the endpoint answered 200
AnsweredSuccess(ep) ==
    Answered(ep) /\ replies[ep].kind = "response" /\ replies[ep].status = 200

\* C1: for a track reference from which extract_track_id returns empty, both track
\* handlers end with a 400-class error and issue no outbound call before it.
C1_InvalidReferenceRejected ==
    (handler \in TrackHandlers /\ extract_track_id(req.track_url) = <<>>)
    => /\ Calls = <<>>
       /\ pc \in {"start", "done"}
       /\ Done => Len(resp) = 1 /\ resp[1].status \in 400..499

\* C1 happens: "not-a-url" is rejected, also where the speech configuration is missing
C1_Witness ==
    /\ handler = "intro_from_track"
    /\ req.track_url = NotAUrl
    /\ Missing(env.eleven)
    /\ Done
    /\ resp[1].status = 400
    /\ Calls = <<>>

\* C2: in the track handlers, when the token or the track endpoint answers with a
\* non-success status s, the response carries exactly s, no narration is composed
\* and no further outbound call is made.
C2_MetadataStatusPropagated ==
    handler \in TrackHandlers =>
        \A ep \in {"token", "track"} :
            AnsweredFailure(ep) =>
                /\ Done
                /\ Len(resp) = 1
                /\ resp[1].status = replies[ep].status
                /\ text = <<>>
                /\ \A i \in DOMAIN log : log[i] # "compose"
                /\ Calls[Len(Calls)] = ep

\* C2 happens: the track endpoint answers 404 after the token endpoint answered 200
C2_Witness ==
    /\ handler = "intro_from_track_text"
    /\ AnsweredSuccess("token")
    /\ AnsweredFailure("track")
    /\ replies["track"].status = 404
    /\ Done
    /\ resp[1].status = 404

\* C3: /api/tts answers with the upstream status s whenever the speech provider
\* answers with a non-success status s, whatever the format of the upstream body,
\* and with the audio/mpeg payload on upstream success.
C3_TtsCarriesUpstreamStatus ==
    (handler = "tts" /\ Answered("speech") /\ replies["speech"].kind = "response")
    => /\ Done
       /\ Len(resp) = 1
       /\ replies["speech"].status # 200 =>
             resp[1].status = replies["speech"].status /\ resp[1].kind \in {"json", "error"}
       /\ replies["speech"].status = 200 =>
             resp[1].status = 200 /\ resp[1].kind = "audio"

\* C4: whenever the audio-features call fails, by a non-success status or by any
\* other failure such as a timeout, the failure is not surfaced: the metadata carry
\* energy = valence = danceability = 0.5 and tempo = 0, the narration carries the
\* fallback phrase, intro_from_track_text answers 200 and intro_from_track goes on
\* to the speech provider.
C4_FeaturesFailureAbsorbed ==
    ( /\ handler \in TrackHandlers
      /\ Answered("features")
      /\ replies["features"].kind = "exception" \/ replies["features"].status # 200 )
    => /\ meta # None
       /\ meta.energy = 50 /\ meta.valence = 50 /\ meta.danceability = 50 /\ meta.tempo = 0
       /\ text # <<>> => PhrasesOf(text) = <<"equilibrio perfetto">>
       /\ (handler = "intro_from_track_text" /\ Done) => resp[1].status = 200
       /\ (handler = "intro_from_track" /\ Done) => \E i \in DOMAIN log : log[i] = "speech"

\* the credential a handler's outbound calls need
CredentialUsedBy(h) ==
    CASE h = "tts" -> {"eleven"}
      [] h = "voices" -> {"eleven"}
      [] h = "intro_from_track_text" -> {"spotify"}
      [] h = "intro_from_track" -> {"spotify", "eleven"}
      [] OTHER -> {}

\* the credential an endpoint is called with
CredentialOf(ep) == IF ep \in {"speech", "voices"} THEN "eleven" ELSE "spotify"

\* the request passes the handler's tests of its input
ValidInput ==
    CASE handler = "tts" -> ~Blank(TtsText(req))
      [] handler \in TrackHandlers -> extract_track_id(req.track_url) # <<>>
      [] OTHER -> TRUE

\* C5: in /api/tts, /api/intro-from-track-text, /api/intro-from-track and
\* /api/voices, a request with valid input made while a credential the handler
\* uses is missing ends with a 500-class response, and no outbound call that needs
\* the missing credential is issued.
C5_MissingCredentialIs500 ==
    ( /\ handler \in {"tts", "voices", "intro_from_track_text", "intro_from_track"}
      /\ ValidInput
      /\ \E c \in CredentialUsedBy(handler) : Missing(env[c]) )
    => /\ Done => Len(resp) = 1 /\ resp[1].status \in 500..599
       /\ \A i \in DOMAIN Calls : ~Missing(env[CredentialOf(Calls[i])])

\* each call is answered before the next is issued, and no endpoint is called twice
SequentialNoRetry ==
    /\ \A i \in DOMAIN Calls : i < Len(Calls) => Answered(Calls[i])
    /\ \A i, j \in DOMAIN Calls : i # j => Calls[i] # Calls[j]

\* C9 as stated: every handler issues between 0 and 3 outbound calls per request,
\* one after the other, each endpoint at most once.
C9_Original == Len(Calls) <= 3 /\ SequentialNoRetry

\* C9 amended: every handler issues between 0 and 4 outbound calls per request
\* (4 only in intro_from_track: token, track, audio-features, speech; at most 3 in
\* every other handler), one after the other, each endpoint at most once.
C9_AtMostFourCallsNoRetry ==
    /\ Len(Calls) <= 4
    /\ handler # "intro_from_track" => Len(Calls) <= 3
    /\ SequentialNoRetry

\* C9 happens: intro_from_track has called all four endpoints
C9_Witness ==
    /\ handler = "intro_from_track"
    /\ Calls = <<"token", "track", "features", "speech">>
    /\ Done

IsPrefix(s, u) == Len(s) <= Len(u) /\ s = SubSeq(u, 1, Len(s))

\* C10: in intro_from_track the steps occur in the order extract, token, track,
\* audio-features, compose, speech; the speech provider is called only after the
\* token and the track calls answered 200; the audio is returned only after the
\* speech provider answered 200; every request ends with exactly one response.
C10_AudioHandlerOrder ==
    handler = "intro_from_track" =>
        /\ IsPrefix(log, <<"extract", "token", "track", "features", "compose", "speech">>)
        /\ (\E i \in DOMAIN log : log[i] = "speech")
              => AnsweredSuccess("token") /\ AnsweredSuccess("track")
        /\ (resp # <<>> /\ resp[1].kind = "audio") => AnsweredSuccess("speech")
        /\ Len(resp) <= 1
        /\ Done <=> Len(resp) = 1

\* C10 happens: the audio is returned after all six steps
C10_Witness ==
    /\ handler = "intro_from_track"
    /\ log = <<"extract", "token", "track", "features", "compose", "speech">>
    /\ Done
    /\ resp[1].kind = "audio"

====
